---- MODULE Spec2Model ----
(***************************************************************************)
(* ST-Manager recoverability core.                                         *)
(*                                                                         *)
(*   - the world-info entry history store                                  *)
(*     (core/services/wi_entry_history_service.py), a SQLite table with    *)
(*     head de-duplication and per-(scope_key, entry_uid) trimming;        *)
(*   - the backup service (core/services/backup_service.py): full and      *)
(*     incremental directory backups under a lock, the change tracker,     *)
(*     the backup listing and the restore of a backup into the live        *)
(*     directories.                                                        *)
(*                                                                         *)
(* The two services share no state, and a restore is not serialized with   *)
(* the backups, so the module gives one specification per subsystem over   *)
(* one set of variables: HistorySpec, BackupSpec and RestoreSpec.          *)
(***************************************************************************)
EXTENDS Integers, Sequences, FiniteSets, TLC

(***************************************************************************)
(* Bounds of the model.                                                    *)
(***************************************************************************)
\* calls of append_entry_history_records in one behaviour
MaxCalls == 2
\* the wall clock of the history service returns 0..MaxTs
MaxTs == 1
\* trigger_backup calls in one behaviour
MaxBackups == 2
\* restore_backup calls in one behaviour
MaxRestores == 2
\* the backup service's wall clock runs over 0..MaxClock ticks
MaxClock == 2
\* clock ticks in one second: backup ids have one-second resolution,
\* metadata timestamps and file modification times are finer
TicksPerSecond == 2

(***************************************************************************)
(* Program constants.                                                      *)
(***************************************************************************)
DEFAULT_HISTORY_LIMIT == 7
MAX_HISTORY_LIMIT == 100

Max(a, b) == IF a >= b THEN a ELSE b
Min(a, b) == IF a <= b THEN a ELSE b

(***************************************************************************)
(*                     THE ENTRY HISTORY STORE                             *)
(***************************************************************************)
VARIABLES
    store,      \* rows of wi_entry_history: [id, scope, uid, snap, hash, ts]
    nextId,     \* the next AUTOINCREMENT id of the table
    hcalls,     \* completed append_entry_history_records calls
    lastArgs,   \* [doc, records, limit, failedAt, done] of the latest append call (<<>> before);
                \* failedAt is the statement group at which the store raised (0: none),
                \* done the number of INSERTs executed by the call
    lastRet,    \* the count the latest append call returned
    insLog      \* per (scope, uid): [id, hash, limit] of each insert, in order

histVars == <<store, nextId, hcalls, lastArgs, lastRet, insLog>>

\* the state of the backup service (its operations follow the history store's)
VARIABLES
    clock,      \* datetime.now() / file system time, in ticks
    isoBasic,   \* whether datetime.fromisoformat parses "YYYYMMDD_HHMMSS"
    retentionDays, \* _schedule_config['retentionDays']
                \* (Python >= 3.11 does, older interpreters raise ValueError)
    src,        \* the live resource directories: type -> (path -> mtime)
    tracker,    \* _change_tracker: type -> set of recorded resource ids
    roots,      \* backup roots: root -> (directory name -> backup directory)
    lock,       \* holder of BackupService._lock, or NoThread
    pc,         \* per thread: where its trigger_backup call stands
    loc,        \* per thread: the locals of its trigger_backup call
    result,     \* per thread: what the latest trigger_backup call returned
    nbackups,   \* trigger_backup calls made so far
    quiet,      \* per root: a backup completed there and nothing changed since
    temp,       \* the `.restore_backup` siblings: type -> (path -> mtime)
    rpc,        \* where the restore_backup call stands
    rloc,       \* the locals of the restore_backup call
    rresult,    \* what the latest restore_backup call returned
    nrestores,  \* restore_backup calls made so far
    pre,        \* the live directory as the running restore found it
    orig        \* the live directory before the first restore of a series

backupVars == <<clock, isoBasic, retentionDays, src, tracker, roots, lock, pc, loc, result,
                nbackups, quiet>>

restoreVars == <<temp, rpc, rloc, rresult, nrestores, pre, orig>>

\* the state delete_backup works on
VARIABLES
    dret,       \* what the latest delete_backup call returned ("none" before)
    dargs,      \* the backup_id of the latest delete_backup call: [dots, name, sub]
    siblings,   \* whether the files next to the backup root (in its parent
                \* directory) exist
    ndeletes    \* delete_backup calls made so far

deleteVars == <<dret, dargs, siblings, ndeletes>>

\* a world-info document on its way through a save
VARIABLES
    book,       \* the stored document: [shape, entries]
    incoming,   \* the new version of the document a save brings
    uidChanged, \* what the latest ensure_entry_uids call returned
    versions,   \* what the latest collect_previous_versions call returned
    ensured,    \* ensure_entry_uids calls made so far
    collected,  \* whether collect_previous_versions has been called
    keyArgs,    \* the documents build_scope_key is asked about
    keyRet      \* the keys build_scope_key returned for them

docVars == <<book, incoming, uidChanged, versions, ensured, collected, keyArgs,
             keyRet>>

\* no document in hand
DocIdle ==
    /\ book = [shape |-> "none", entries |-> <<>>]
    /\ incoming = [shape |-> "none", entries |-> <<>>]
    /\ uidChanged = FALSE
    /\ versions = <<>>
    /\ ensured = 0
    /\ collected = FALSE
    /\ keyArgs = <<>>
    /\ keyRet = <<>>

\* Strings that build_scope_key takes apart are sequences of characters; a
\* lower-case word without white space or separators ("worldbook") stands
\* as one element.
\* the documents callers name: (source_type, source_id, file_path)
Docs == {<< <<"worldbook">>, <<"book1">>, <<>> >>}
\* two documents with histories of their own
ListDocs == Docs \cup {<< <<"worldbook">>, <<"book2">>, <<>> >>}
\* entry_uid arguments; "" is a blank uid
UidInputs == {"", "u1", "u2"}
\* an entry as the caller passes it: authored text and a transient field
Entries == [text : {"x", "y"}, displayIndex : 0..1]
\* one element of `records`
RecordInputs == [entry_uid : UidInputs, snapshot : Entries]
\* `limit` arguments: <<>> is None, <<n>> the number n
LimitInputs == {<<>>, <<0>>, <<1>>}
Times == 0..MaxTs

\* str.strip() and str.lower() on character sequences
RECURSIVE LStrip(_)
LStrip(s) == IF s # <<>> /\ Head(s) = " " THEN LStrip(Tail(s)) ELSE s

RECURSIVE RStrip(_)
RStrip(s) ==
    IF s # <<>> /\ s[Len(s)] = " " THEN RStrip(SubSeq(s, 1, Len(s) - 1)) ELSE s

StripChars(s) == RStrip(LStrip(s))

Lower(s) == [i \in DOMAIN s |-> IF s[i] = "A" THEN "a" ELSE s[i]]

\* str.replace('\\', '/')
ReplaceBackslash(s) == [i \in DOMAIN s |-> IF s[i] = "\\" THEN "/" ELSE s[i]]

\* core.config.BASE_DIR, an absolute directory
BASE_DIR == <<"/", "base">>

\* os.path.isabs (POSIX)
IsAbs(path) == path # <<>> /\ Head(path) = "/"

\* the components of a path between its slashes, empty ones dropped
RECURSIVE Comps(_, _)
Comps(path, cur) ==
    IF path = <<>> THEN (IF cur = <<>> THEN <<>> ELSE <<cur>>)
    ELSE IF Head(path) = "/"
         THEN (IF cur = <<>> THEN <<>> ELSE <<cur>>) \o Comps(Tail(path), <<>>)
         ELSE Comps(Tail(path), Append(cur, Head(path)))

\* os.path.normpath on the components of an absolute path: "." is dropped,
\* ".." removes the component before it (none at the root)
RECURSIVE Resolve(_, _)
Resolve(comps, acc) ==
    IF comps = <<>> THEN acc
    ELSE LET c == Head(comps)
         IN  IF c = <<".">> THEN Resolve(Tail(comps), acc)
             ELSE IF c = <<".", ".">>
                  THEN Resolve(Tail(comps),
                               IF acc = <<>> THEN acc
                               ELSE SubSeq(acc, 1, Len(acc) - 1))
                  ELSE Resolve(Tail(comps), Append(acc, c))

RECURSIVE JoinComps(_)
JoinComps(comps) ==
    IF comps = <<>> THEN <<>>
    ELSE IF Len(comps) = 1 THEN Head(comps)
         ELSE Head(comps) \o <<"/">> \o JoinComps(Tail(comps))

\* os.path.normpath (POSIX) of an absolute path: exactly two leading slashes
\* are kept, any other number becomes one
NormPath(path) ==
    LET lead == IF /\ Len(path) >= 2
                   /\ path[2] = "/"
                   /\ (Len(path) = 2 \/ path[3] # "/")
                THEN <<"/", "/">> ELSE <<"/">>
    IN  lead \o JoinComps(Resolve(Comps(path, <<>>), <<>>))

\* _normalize_path
NormalizePath(file_path) ==
    IF file_path = <<>> THEN <<>>
    ELSE LET path == IF IsAbs(file_path) THEN file_path
                     ELSE BASE_DIR \o <<"/">> \o file_path
         IN  ReplaceBackslash(NormPath(path))

\* `str(source_type or '').strip().lower() or 'unknown'`
NormalizeType(source_type) ==
    LET stype == Lower(StripChars(source_type))
    IN  IF stype = <<>> THEN <<"unknown">> ELSE stype

\* lines 49-52: the string that is hashed
RawKey(stype, sid, npath) ==
    IF npath # <<>> THEN stype \o <<"|">> \o npath
    ELSE stype \o <<"|">> \o sid \o <<"|">>

\* build_scope_key of doc = (source_type, source_id, file_path); SHA-1 is
\* taken to be collision free, so the key is the hashed string itself.
build_scope_key(doc) ==
    RawKey(NormalizeType(doc[1]),
           ReplaceBackslash(StripChars(doc[2])),
           NormalizePath(doc[3]))

\* get_history_limit: None reads the configuration (default 7), then the
\* value is clamped to 1..MAX_HISTORY_LIMIT.
get_history_limit(limit) ==
    LET num == IF limit = <<>> THEN DEFAULT_HISTORY_LIMIT ELSE limit[1]
    IN  Max(1, Min(num, MAX_HISTORY_LIMIT))

\* _snapshot_entry: drop id / uid / displayIndex, force the uid.
SnapshotEntry(entry, forced_uid) ==
    [text |-> entry.text, st_manager_uid |-> forced_uid]

\* _snapshot_hash: SHA-1 of the sorted-key compact JSON, collision free.
SnapshotHash(snap) == <<"st_manager_uid", snap.st_manager_uid, "text", snap.text>>

\* ORDER BY created_at DESC, id DESC
Before(q, r) == q.ts > r.ts \/ (q.ts = r.ts /\ q.id > r.id)

RowsOf(st, scope, uid) == {r \in st : r.scope = scope /\ r.uid = uid}

\* rows of a pair that precede r in the stored order
Rank(st, r) == Cardinality({q \in RowsOf(st, r.scope, r.uid) : Before(q, r)})

\* SELECT snapshot_hash ... ORDER BY created_at DESC, id DESC LIMIT 1
HeadRows(st, scope, uid) == {r \in RowsOf(st, scope, uid) : Rank(st, r) = 0}

\* an insert that is not followed by the DELETE
NoTrim(st, scope, uid, keep_limit) == st

\* DELETE ... WHERE id IN (SELECT id ... LIMIT -1 OFFSET keep_limit)
Trim(st, scope, uid, keep_limit) ==
    {r \in st : ~(r.scope = scope /\ r.uid = uid /\ Rank(st, r) >= keep_limit)}

\* lines 158-166: keep the records with a non-blank uid, re-canonicalized
RECURSIVE CleanRecords(_)
CleanRecords(records) ==
    IF records = <<>> THEN <<>>
    ELSE LET rec == Head(records)
             rest == CleanRecords(Tail(records))
         IN  IF rec.entry_uid = "" THEN rest
             ELSE <<[entry_uid |-> rec.entry_uid,
                     snapshot |-> SnapshotEntry(rec.snapshot, rec.entry_uid)]>>
                  \o rest

\* one iteration of the loop at lines 181-220 on the state
\* acc = [store, nextId, inserted, ins]
AppendOne(acc, scope, rec, keep_limit, now_ts) ==
    LET h == SnapshotHash(rec.snapshot)
        head == HeadRows(acc.store, scope, rec.entry_uid)
    IN  IF \E r \in head : r.hash = h
        THEN acc
        ELSE LET row == [id |-> acc.nextId, scope |-> scope,
                         uid |-> rec.entry_uid, snap |-> rec.snapshot,
                         hash |-> h, ts |-> now_ts]
             IN  [store |-> Trim(acc.store \cup {row}, scope, rec.entry_uid,
                                 keep_limit),
                  nextId |-> acc.nextId + 1,
                  inserted |-> acc.inserted + 1,
                  ins |-> Append(acc.ins, row)]

RECURSIVE AppendLoop(_, _, _, _, _)
AppendLoop(acc, scope, clean, keep_limit, now_ts) ==
    IF clean = <<>> THEN acc
    ELSE AppendLoop(AppendOne(acc, scope, Head(clean), keep_limit, now_ts),
                    scope, Tail(clean), keep_limit, now_ts)

RECURSIVE LogInserts(_, _, _)
LogInserts(log, ins, keep_limit) ==
    IF ins = <<>> THEN log
    ELSE LET row == Head(ins)
             k == <<row.scope, row.uid>>
         IN  LogInserts([log EXCEPT ![k] = Append(@, [id |-> row.id,
                                                      hash |-> row.hash,
                                                      limit |-> keep_limit])],
                        Tail(ins), keep_limit)

\* the `records` arguments: one record, or two records of one entry as a
\* document lists them (displayIndex 0 then 1)
RecordLists ==
    {<<r>> : r \in RecordInputs}
    \cup {<<[entry_uid |-> "u1", snapshot |-> [text |-> t1, displayIndex |-> 0]],
            [entry_uid |-> "u1", snapshot |-> [text |-> t2, displayIndex |-> 1]]>> :
          t1 \in {"x", "y"}, t2 \in {"x", "y"}}

Pairs == {<<build_scope_key(d), u>> : d \in ListDocs, u \in UidInputs \ {""}}

\* append_entry_history_records(source_type, source_id, file_path, records,
\* limit) with the wall clock returning now_ts; one transaction.
AppendEntryHistoryRecords(doc, records, limit, now_ts, maxCalls) ==
    LET clean == CleanRecords(records)
        scope == build_scope_key(doc)
        keep_limit == get_history_limit(limit)
        acc == AppendLoop([store |-> store, nextId |-> nextId, inserted |-> 0,
                           ins |-> <<>>], scope, clean, keep_limit, now_ts)
    IN  /\ hcalls < maxCalls
        /\ hcalls' = hcalls + 1
        /\ lastArgs' = [doc |-> doc, records |-> records, limit |-> limit,
                        failedAt |-> 0, done |-> acc.inserted]
        /\ UNCHANGED <<deleteVars, docVars, backupVars, restoreVars>>
        /\ IF clean = <<>>
           THEN /\ lastRet' = 0
                /\ UNCHANGED <<store, nextId, insLog>>
           ELSE /\ store' = acc.store
                /\ nextId' = acc.nextId
                /\ lastRet' = acc.inserted
                /\ insLog' = LogInserts(insLog, acc.ins, keep_limit)

AppendCall ==
    \E doc \in Docs, records \in RecordLists, limit \in LimitInputs, now_ts \in Times :
        AppendEntryHistoryRecords(doc, records, limit, now_ts, MaxCalls)

\* a store that keeps what was written before the failure
KeptStore(st, partial) == partial

\* lines 177 and 223-225: `with sqlite3.connect(...) as conn` rolls the
\* transaction back when a statement raises, so the table is as before
RolledBack(st, partial) == st

\* append_entry_history_records when the store raises at its n-th record
\* (or at the commit, n = number of valid records + 1): the exception is
\* logged and 0 is returned
AppendFails(doc, records, limit, now_ts, n) ==
    LET clean == CleanRecords(records)
        scope == build_scope_key(doc)
        keep_limit == get_history_limit(limit)
        acc == AppendLoop([store |-> store, nextId |-> nextId, inserted |-> 0,
                           ins |-> <<>>], scope, SubSeq(clean, 1, n - 1),
                          keep_limit, now_ts)
    IN  /\ hcalls < MaxCalls
        /\ clean # <<>>
        /\ n \in 1..(Len(clean) + 1)
        /\ hcalls' = hcalls + 1
        /\ lastArgs' = [doc |-> doc, records |-> records, limit |-> limit,
                        failedAt |-> n, done |-> acc.inserted]
        /\ store' = RolledBack(store, acc.store)
        /\ lastRet' = 0
        /\ UNCHANGED <<deleteVars, docVars, backupVars, restoreVars, nextId, insLog>>

AppendFailsCall ==
    \E doc \in Docs, records \in RecordLists, limit \in LimitInputs, now_ts \in Times,
       n \in 1..3 :
        AppendFails(doc, records, limit, now_ts, n)

\* the same call in behaviours one call longer
AppendCallLong ==
    \E doc \in Docs, records \in RecordLists, limit \in LimitInputs, now_ts \in Times :
        AppendEntryHistoryRecords(doc, records, limit, now_ts, MaxCalls + 1)

\* the rows of a pair as a sequence, oldest first, at most n of them
RECURSIVE OldestFirst(_, _)
OldestFirst(rows, n) ==
    IF rows = {} \/ n = 0 THEN <<>>
    ELSE LET first == CHOOSE r \in rows : \A q \in rows : ~Before(r, q)
         IN  <<first>> \o OldestFirst(rows \ {first}, n - 1)

\* the rows of a pair as a sequence, most recent first, at most n of them
RECURSIVE Ordered(_, _)
Ordered(rows, n) ==
    IF rows = {} \/ n = 0 THEN <<>>
    ELSE LET first == CHOOSE r \in rows : \A q \in rows : ~Before(q, r)
         IN  <<first>> \o Ordered(rows \ {first}, n - 1)

\* list_entry_history_records
ListEntryHistoryRecords(doc, entry_uid, limit) ==
    IF entry_uid = "" THEN <<>>
    ELSE LET rows == Ordered(RowsOf(store, build_scope_key(doc), entry_uid),
                             get_history_limit(limit))
         IN  [i \in DOMAIN rows |->
                [id |-> rows[i].id, created_at |-> rows[i].ts,
                 snapshot |-> rows[i].snap]]

\* what list_entry_history_records may return: the listing, or [] when the
\* store raises (lines 253-255)
ListOutcomes(doc, entry_uid, limit) ==
    {ListEntryHistoryRecords(doc, entry_uid, limit)}
        \cup (IF entry_uid = "" THEN {} ELSE {<<>>})

HistoryInit ==
    /\ store = {}
    /\ nextId = 1
    /\ hcalls = 0
    /\ lastArgs = <<>>
    /\ lastRet = 0
    /\ insLog = [p \in Pairs |-> <<>>]

(***************************************************************************)
(*                        THE BACKUP SERVICE                               *)
(***************************************************************************)
Threads == {"t1", "t2"}
NoThread == "none"

\* RESOURCE_CONFIG_KEYS (two of the six types are modelled)
RESOURCE_CONFIG_KEYS == {"characters", "worldbooks"}

\* a file of a resource directory: <<sub-directory, bare file name>>
Paths == {<<"", "a">>, <<"sub", "a">>, <<"", "b">>}
Bare(path) == path[2]

\* the live directories as the configuration names them: the characters
\* directory exists, the worldbooks directory does not (os.path.exists is
\* false for it)
ExistingSources == {"characters"}
SourceFiles(res_type) == {<<"sub", "a">>, <<"", "b">>}

\* the backup roots: the configured one (_get_backup_path) and one a caller
\* passes as backup_path
DefaultRoot == "default"
Roots == {DefaultRoot, "other"}

\* `resources` arguments: <<>> stands for None
ResourceArgs == {<<>>, <<"characters", "bogus">>}

\* timestamps as the strings the code compares and parses: an ISO string
\* datetime.now().isoformat() of tick t, or a directory name
\* strftime('%Y%m%d_%H%M%S') of second t
IsoStamp(t) == [fmt |-> "iso", t |-> t]
NameStamp(sec) == [fmt |-> "name", t |-> sec]

\* Python's string order on timestamps of one calendar year: the fifth
\* character is '-' in an ISO string and a digit in a directory name
StrLess(a, b) ==
    IF a.fmt = b.fmt THEN a.t < b.t ELSE a.fmt = "iso"

\* datetime.fromisoformat(s).timestamp(), in ticks: <<t>>, or <<>> when it
\* raises
FromIsoFormat(stamp) ==
    IF stamp.fmt = "iso" THEN <<stamp.t>>
    ELSE IF isoBasic THEN <<stamp.t * TicksPerSecond>>
    ELSE <<>>

\* datetime.now().strftime('%Y%m%d_%H%M%S'): the second of tick t
Strftime(t) == t \div TicksPerSecond

NoMeta == [id |-> -1]
EmptyTree == [p \in {} |-> 0]

\* list_backups(): the records of the directories under the configured
\* root (always _get_backup_path(), whatever root a backup writes to)
BackupRecords ==
    LET dirs == roots[DefaultRoot]
    IN  {IF dirs[name].meta # NoMeta
         THEN [id |-> dirs[name].meta.id, timestamp |-> dirs[name].meta.timestamp]
         ELSE [id |-> name, timestamp |-> NameStamp(name)] : name \in DOMAIN dirs}

\* backups[0] of list_backups(): sorted by timestamp string, descending
FirstListed ==
    CHOOSE b \in BackupRecords :
        \A c \in BackupRecords : ~StrLess(b.timestamp, c.timestamp)

\* _get_last_backup_time(): <<>> stands for None
GetLastBackupTime ==
    IF BackupRecords = {} THEN <<>>
    ELSE FromIsoFormat(FirstListed.timestamp)

\* a should_copy decision that looks at modification times only
ShouldCopyByTime(mtime, bare, last_backup_time, changes) ==
    \/ last_backup_time = <<>>
    \/ (last_backup_time # <<>> /\ mtime > last_backup_time[1])

\* the should_copy decision of _incremental_copy, lines 237-244
ShouldCopy(mtime, bare, last_backup_time, changes) ==
    \/ last_backup_time = <<>>
    \/ (last_backup_time # <<>> /\ mtime > last_backup_time[1])
    \/ bare \in changes

\* the files _incremental_copy copies from a source directory
IncrementalFiles(res_type, last_backup_time) ==
    {f \in DOMAIN src[res_type] :
        ShouldCopy(src[res_type][f], Bare(f), last_backup_time, tracker[res_type])}

\* a tree with the files fs of the directory from copied over it
Overlay(tree, from, fs) ==
    [f \in (DOMAIN tree) \cup fs |-> IF f \in fs THEN from[f] ELSE tree[f]]

IdleLoc == [root |-> DefaultRoot, id |-> -1, todo |-> <<>>, incremental |-> FALSE,
            total_files |-> 0, backed_up |-> <<>>, copied |-> {},
            first |-> FALSE, prevTs |-> <<>>, quiet |-> FALSE, last |-> <<>>]

\* metadata timestamps of the finished backups of a root, in ticks
MetaTimes(root) ==
    {roots[root][n].meta.timestamp.t : n \in {m \in DOMAIN roots[root] :
                                                roots[root][m].meta # NoMeta}}

SetMax(S) == CHOOSE x \in S : \A y \in S : y <= x

\* a caller enters trigger_backup and reaches `with self._lock`
Call(t) ==
    /\ pc[t] = "idle"
    /\ nbackups < MaxBackups
    /\ nbackups' = nbackups + 1
    /\ pc' = [pc EXCEPT ![t] = "waiting"]
    /\ UNCHANGED <<deleteVars, docVars, histVars, restoreVars, clock, isoBasic, retentionDays, src, tracker, roots, lock, loc, result, quiet>>

\* lines 122-136, with the lock taken: name the backup directory after the
\* current second and create it (exist_ok)
StartBackup(t, resources, backup_path, incremental) ==
    LET id == Strftime(clock)
        dirs == roots[backup_path]
    IN  /\ pc[t] = "waiting"
        /\ lock' = t
        /\ pc' = [pc EXCEPT ![t] = "copy"]
        /\ roots' = [roots EXCEPT ![backup_path] =
                        IF id \in DOMAIN dirs THEN dirs
                        ELSE [n \in (DOMAIN dirs) \cup {id} |->
                                IF n = id
                                THEN [meta |-> NoMeta,
                                      trees |-> [ty \in {} |-> EmptyTree]]
                                ELSE dirs[n]]]
        /\ loc' = [loc EXCEPT ![t] =
                     [IdleLoc EXCEPT
                        !.root = backup_path,
                        !.id = id,
                        !.todo = IF resources = <<>>
                                 THEN <<"characters", "worldbooks">>
                                 ELSE resources,
                        !.incremental = incremental,
                        !.first = (DOMAIN dirs = {}),
                        !.prevTs = IF MetaTimes(backup_path) = {} THEN <<>>
                                   ELSE <<SetMax(MetaTimes(backup_path))>>,
                        !.quiet = quiet[backup_path]]]
        /\ UNCHANGED <<deleteVars, docVars, histVars, restoreVars, clock, isoBasic, retentionDays, src, tracker, result, nbackups, quiet>>

\* trigger_backup entering its body without waiting for the lock
StartWithoutLock(t, resources, backup_path, incremental) ==
    StartBackup(t, resources, backup_path, incremental)

\* line 109: `with self._lock` lets one caller in when nobody holds the lock
AcquireAndStart(t, resources, backup_path, incremental) ==
    /\ lock = NoThread
    /\ StartBackup(t, resources, backup_path, incremental)

\* _full_copy: the files copied into a target subtree, which is removed
\* first when it exists
FullFiles(res_type) == DOMAIN src[res_type]

\* the target subtree after _full_copy / _incremental_copy
CopiedTree(trees, res_type, incremental, last_backup_time) ==
    IF incremental
    THEN Overlay(IF res_type \in DOMAIN trees THEN trees[res_type] ELSE EmptyTree,
                 src[res_type], IncrementalFiles(res_type, last_backup_time))
    ELSE src[res_type]

\* the loop at lines 138-163 over the resource types `todo`, on the state
\* acc = [trees, total_files, backed_up, copied, last]
RECURSIVE CopyLoop(_, _, _)
CopyLoop(acc, todo, incremental) ==
    IF todo = <<>> THEN acc
    ELSE LET res_type == Head(todo)
             last == GetLastBackupTime
             files == IF incremental THEN IncrementalFiles(res_type, last)
                      ELSE FullFiles(res_type)
         IN  IF res_type \notin RESOURCE_CONFIG_KEYS \/ res_type \notin DOMAIN src
             THEN CopyLoop(acc, Tail(todo), incremental)
             ELSE CopyLoop(
                    [trees |-> [ty \in (DOMAIN acc.trees) \cup {res_type} |->
                                  IF ty = res_type
                                  THEN CopiedTree(acc.trees, res_type, incremental, last)
                                  ELSE acc.trees[ty]],
                     total_files |-> acc.total_files + Cardinality(files),
                     backed_up |-> Append(acc.backed_up, res_type),
                     copied |-> acc.copied \cup {<<res_type, f>> : f \in files},
                     last |-> IF incremental THEN last ELSE acc.last],
                    Tail(todo), incremental)

\* the copy phase over the first n requested resource types
CopyFirst(t, n) ==
    LET l == loc[t]
        acc == CopyLoop([trees |-> roots[l.root][l.id].trees,
                         total_files |-> 0, backed_up |-> <<>>, copied |-> {},
                         last |-> <<>>],
                        SubSeq(l.todo, 1, n), l.incremental)
    IN  /\ roots' = [roots EXCEPT ![l.root][l.id].trees = acc.trees]
        /\ loc' = [loc EXCEPT ![t].todo = <<>>,
                              ![t].total_files = acc.total_files,
                              ![t].backed_up = acc.backed_up,
                              ![t].copied = acc.copied,
                              ![t].last = acc.last]

\* lines 138-163: every requested resource type is copied
CopyResources(t) ==
    /\ pc[t] = "copy"
    /\ CopyFirst(t, Len(loc[t].todo))
    /\ pc' = [pc EXCEPT ![t] = "meta"]
    /\ UNCHANGED <<deleteVars, docVars, histVars, restoreVars, clock, isoBasic, retentionDays, src, tracker, lock, result, nbackups, quiet>>

\* a failure return that leaves the lock taken
FailsHoldingLock(t, n) ==
    /\ pc[t] = "copy"
    /\ n < Len(loc[t].todo)
    /\ result' = [result EXCEPT ![t] = [success |-> FALSE, fileCount |-> 0]]
    /\ pc' = [pc EXCEPT ![t] = "idle"]
    /\ loc' = [loc EXCEPT ![t] = IdleLoc]
    /\ UNCHANGED <<deleteVars, docVars, histVars, restoreVars, clock, isoBasic,
                   retentionDays, src, tracker, roots, lock, nbackups, quiet>>

\* lines 194-199: the copy of a resource type raises after the first n
\* types were copied; the failure result is returned and the lock released,
\* with the backup directory left as it is
CopyFails(t, n) ==
    /\ pc[t] = "copy"
    /\ n < Len(loc[t].todo)
    /\ loc[t].todo[n + 1] \in RESOURCE_CONFIG_KEYS \cap DOMAIN src
    /\ \E l2 \in {loc[t]} : roots' =
         [roots EXCEPT ![l2.root][l2.id].trees =
            CopyLoop([trees |-> roots[l2.root][l2.id].trees, total_files |-> 0,
                      backed_up |-> <<>>, copied |-> {}, last |-> <<>>],
                     SubSeq(l2.todo, 1, n), l2.incremental).trees]
    /\ result' = [result EXCEPT ![t] = [success |-> FALSE, fileCount |-> 0]]
    /\ lock' = NoThread
    /\ pc' = [pc EXCEPT ![t] = "idle"]
    /\ loc' = [loc EXCEPT ![t] = IdleLoc]
    /\ UNCHANGED <<deleteVars, docVars, histVars, restoreVars, clock, isoBasic, retentionDays, src, tracker, nbackups, quiet>>

\* retention_days of _schedule_config (the default)
RetentionDays == 30
\* the ticks of one day
DayTicks == 24 * 3600 * TicksPerSecond

\* os.path.getmtime of a backup directory, in ticks: the second it was
\* created in
DirMtime(n) == n * TicksPerSecond

\* a cleanup that judges only the directories holding a metadata.json
CleanupWithMetadataOnly(dirs, now) ==
    LET cutoff == now - retentionDays * DayTicks
        kept == {n \in DOMAIN dirs :
                    \/ retentionDays <= 0
                    \/ dirs[n].meta = NoMeta
                    \/ ~(dirs[n].meta.timestamp.t < cutoff)}
    IN  [n \in kept |-> dirs[n]]

\* _cleanup_old_backups: the directories of a root that are kept, at tick
\* `now`; a directory without metadata is judged by its modification time
CleanupOldBackups(dirs, now) ==
    LET cutoff == now - retentionDays * DayTicks
        old(n) == IF dirs[n].meta # NoMeta
                  THEN dirs[n].meta.timestamp.t < cutoff
                  ELSE DirMtime(n) < cutoff
        kept == {n \in DOMAIN dirs : retentionDays <= 0 \/ ~old(n)}
    IN  [n \in kept |-> dirs[n]]

\* lines 165-192: write metadata.json into the backup directory, run the
\* retention cleanup, return the success result and release the lock
FinishBackup(t) ==
    LET l == loc[t]
        meta == [id |-> l.id, timestamp |-> IsoStamp(clock),
                 resources |-> l.backed_up, fileCount |-> l.total_files,
                 incremental |-> l.incremental]
        written == [roots[l.root] EXCEPT ![l.id].meta = meta]
    IN  /\ pc[t] = "meta"
        /\ roots' = [roots EXCEPT ![l.root] = CleanupOldBackups(written, clock)]
        /\ result' = [result EXCEPT ![t] =
                        [success |-> TRUE, fileCount |-> l.total_files]]
        /\ quiet' = [quiet EXCEPT ![l.root] = TRUE]
        /\ lock' = NoThread
        /\ pc' = [pc EXCEPT ![t] = "idle"]
        /\ loc' = [loc EXCEPT ![t] = IdleLoc]
        /\ UNCHANGED <<deleteVars, docVars, histVars, restoreVars, clock, isoBasic, retentionDays, src, tracker, nbackups>>

\* track_change(resource_type, resource_id): an upsert of the id (the
\* recorded time is never read)
TrackChange(resource_type, resource_id) ==
    /\ resource_id \notin tracker[resource_type]
    /\ tracker' = [tracker EXCEPT ![resource_type] = @ \cup {resource_id}]
    /\ quiet' = [r \in Roots |-> FALSE]
    /\ loc' = [t \in Threads |-> [loc[t] EXCEPT !.quiet = FALSE]]
    /\ UNCHANGED <<deleteVars, docVars, histVars, restoreVars, clock, isoBasic, retentionDays, src, roots, lock, pc, result, nbackups>>

\* the user (or the application) rewrites a live file
ModifyFile(res_type, f) ==
    /\ src[res_type][f] < clock
    /\ src' = [src EXCEPT ![res_type][f] = clock]
    /\ quiet' = [r \in Roots |-> FALSE]
    /\ loc' = [t \in Threads |-> [loc[t] EXCEPT !.quiet = FALSE]]
    /\ UNCHANGED <<deleteVars, docVars, histVars, restoreVars, clock, isoBasic, retentionDays, tracker, roots, lock, pc, result, nbackups>>

Tick ==
    /\ clock < MaxClock
    /\ clock' = clock + 1
    /\ UNCHANGED <<deleteVars, docVars, histVars, restoreVars, isoBasic, retentionDays, src, tracker, roots, lock, pc, loc, result,
                   nbackups, quiet>>

NoResult == [success |-> FALSE, fileCount |-> 0]

\* the service after construction, nobody inside trigger_backup
BackupIdle ==
    /\ clock = 0
    /\ tracker = [ty \in RESOURCE_CONFIG_KEYS |-> {}]
    /\ lock = NoThread
    /\ pc = [t \in Threads |-> "idle"]
    /\ loc = [t \in Threads |-> IdleLoc]
    /\ result = [t \in Threads |-> NoResult]
    /\ nbackups = 0
    /\ quiet = [r \in Roots |-> FALSE]

BackupInit ==
    /\ BackupIdle
    /\ retentionDays = RetentionDays
    /\ isoBasic \in BOOLEAN
    /\ src = [ty \in ExistingSources |-> [f \in SourceFiles(ty) |-> 0]]
    /\ roots = [r \in Roots |-> [n \in {} |-> 0]]

BackupNext ==
    \/ \E t \in Threads : Call(t)
    \/ \E t \in Threads, resources \in ResourceArgs, backup_path \in Roots,
          incremental \in BOOLEAN :
            AcquireAndStart(t, resources, backup_path, incremental)
    \/ \E t \in Threads : CopyResources(t)
    \/ \E t \in Threads, n \in 0..1 : CopyFails(t, n)
    \/ \E t \in Threads : FinishBackup(t)
    \/ TrackChange("characters", "a")
    \/ ModifyFile("characters", <<"sub", "a">>)
    \/ Tick

(***************************************************************************)
(*                          restore_backup                                 *)
(***************************************************************************)
\* the directory of ty: <<tree>>, or <<>> when it does not exist
DirOf(dirs, ty) == IF ty \in DOMAIN dirs THEN <<dirs[ty]>> ELSE <<>>

\* dirs with the directory of ty set to tree, or removed
WithDir(dirs, ty, tree) ==
    [k \in (DOMAIN dirs) \cup {ty} |-> IF k = ty THEN tree ELSE dirs[k]]
WithoutDir(dirs, ty) == [k \in (DOMAIN dirs) \ {ty} |-> dirs[k]]

\* a tree without the file f
WithoutFile(tree, f) == [g \in (DOMAIN tree) \ {f} |-> tree[g]]

IdleRestore == [id |-> -1, todo |-> <<>>, restored |-> <<>>]

\* lines 306-334: the backup directory must exist; the resource types come
\* from metadata.json, or are all the known types without it
RestoreBegin(backup_id) ==
    LET dirs == roots[DefaultRoot]
    IN  /\ rpc = "idle"
        /\ nrestores < MaxRestores
        /\ nrestores' = nrestores + 1
        /\ IF backup_id \notin DOMAIN dirs
           THEN /\ rresult' = [success |-> FALSE, restored |-> <<>>]
                /\ UNCHANGED <<rpc, rloc, pre, orig>>
           ELSE /\ rpc' = "next"
                /\ rloc' = [id |-> backup_id,
                            todo |-> IF dirs[backup_id].meta # NoMeta
                                     THEN dirs[backup_id].meta.resources
                                     ELSE <<"characters", "worldbooks">>,
                            restored |-> <<>>]
                /\ pre' = src
                /\ orig' = IF nrestores = 0 \/ rresult.success THEN src ELSE orig
                /\ UNCHANGED rresult
        /\ UNCHANGED <<deleteVars, docVars, histVars, backupVars, temp>>

\* lines 338-349 and 370-374: the next resource type, or the success result
RestoreNext ==
    /\ rpc = "next"
    /\ IF rloc.todo = <<>>
       THEN /\ rresult' = [success |-> TRUE, restored |-> rloc.restored]
            /\ rpc' = "idle"
            /\ rloc' = IdleRestore
       ELSE /\ IF Head(rloc.todo) \in DOMAIN roots[DefaultRoot][rloc.id].trees
                  /\ Head(rloc.todo) \in RESOURCE_CONFIG_KEYS
               THEN /\ rpc' = IF Head(rloc.todo) \in DOMAIN src THEN "aside" ELSE "copy"
                    /\ rloc' = rloc
               ELSE /\ rloc' = [rloc EXCEPT !.todo = Tail(@)]
                    /\ rpc' = rpc
            /\ UNCHANGED rresult
    /\ UNCHANGED <<deleteVars, docVars, histVars, backupVars, temp, nrestores, pre, orig>>

\* lines 354-355: shutil.rmtree of a sibling a previous restore left, one
\* file at a time and then the directory
RemoveStaleSibling ==
    LET ty == Head(rloc.todo)
    IN  /\ rpc = "aside"
        /\ ty \in DOMAIN temp
        /\ IF DOMAIN temp[ty] = {}
           THEN temp' = WithoutDir(temp, ty)
           ELSE \E f \in DOMAIN temp[ty] :
                    temp' = [temp EXCEPT ![ty] = WithoutFile(@, f)]
        /\ UNCHANGED <<deleteVars, docVars, histVars, backupVars, rpc, rloc, rresult, nrestores, pre, orig>>

\* a restore that removes the live directory instead of setting it aside
RemoveLive ==
    LET ty == Head(rloc.todo)
    IN  /\ rpc = "aside"
        /\ ty \notin DOMAIN temp
        /\ src' = WithoutDir(src, ty)
        /\ rpc' = "copy"
        /\ UNCHANGED <<deleteVars, docVars, histVars, clock, isoBasic, retentionDays, tracker, roots, lock, pc, loc, result,
                       nbackups, quiet, temp, rloc, rresult, nrestores, pre, orig>>

\* a restore that copies over the live directory without setting it aside
KeepLive ==
    /\ rpc = "aside"
    /\ Head(rloc.todo) \notin DOMAIN temp
    /\ rpc' = "copy"
    /\ UNCHANGED <<deleteVars, docVars, histVars, backupVars, temp, rloc, rresult, nrestores, pre, orig>>

\* line 356: shutil.move renames the live directory to the sibling
MoveAside ==
    LET ty == Head(rloc.todo)
    IN  /\ rpc = "aside"
        /\ ty \notin DOMAIN temp
        /\ temp' = WithDir(temp, ty, src[ty])
        /\ src' = WithoutDir(src, ty)
        /\ rpc' = "copy"
        /\ UNCHANGED <<deleteVars, docVars, histVars, clock, isoBasic, retentionDays, tracker, roots, lock, pc, loc, result,
                       nbackups, quiet, rloc, rresult, nrestores, pre, orig>>

\* line 359: shutil.copytree creates the live directory, then copies the
\* backed-up files one at a time
CopyTreeStep ==
    LET ty == Head(rloc.todo)
        from == roots[DefaultRoot][rloc.id].trees[ty]
    IN  /\ rpc = "copy"
        /\ IF ty \notin DOMAIN src
           THEN /\ src' = WithDir(src, ty, EmptyTree)
                /\ rpc' = rpc
           ELSE IF DOMAIN from \subseteq DOMAIN src[ty]
           THEN /\ src' = src
                /\ rpc' = "cleanup"
           ELSE /\ \E f \in (DOMAIN from) \ (DOMAIN src[ty]) :
                      src' = [src EXCEPT ![ty] = Overlay(@, from, {f})]
                /\ rpc' = rpc
        /\ UNCHANGED <<deleteVars, docVars, histVars, clock, isoBasic, retentionDays, tracker, roots, lock, pc, loc, result,
                       nbackups, quiet, temp, rloc, rresult, nrestores, pre, orig>>

\* lines 362-366: shutil.rmtree of the sibling, then the type is restored
RemoveSibling ==
    LET ty == Head(rloc.todo)
    IN  /\ rpc = "cleanup"
        /\ IF ty \notin DOMAIN temp
           THEN /\ rloc' = [rloc EXCEPT !.todo = Tail(@),
                                        !.restored = Append(@, ty)]
                /\ rpc' = "next"
                /\ temp' = temp
           ELSE /\ IF DOMAIN temp[ty] = {}
                   THEN temp' = WithoutDir(temp, ty)
                   ELSE \E f \in DOMAIN temp[ty] :
                            temp' = [temp EXCEPT ![ty] = WithoutFile(@, f)]
                /\ UNCHANGED <<rpc, rloc>>
        /\ UNCHANGED <<deleteVars, docVars, histVars, backupVars, rresult, nrestores, pre, orig>>

\* lines 376-381: a file operation raises; the failure result is returned
\* and the directories stay as they are
RestoreFails ==
    /\ rpc \in {"aside", "copy", "cleanup"}
    /\ rresult' = [success |-> FALSE, restored |-> <<>>]
    /\ rpc' = "idle"
    /\ rloc' = IdleRestore
    /\ UNCHANGED <<deleteVars, docVars, histVars, backupVars, temp, nrestores, pre, orig>>

\* the process dies in the middle of a restore and is started again
Crash ==
    /\ rpc \in {"next", "aside", "copy", "cleanup"}
    /\ rresult' = [success |-> FALSE, restored |-> <<>>]
    /\ rpc' = "idle"
    /\ rloc' = IdleRestore
    /\ UNCHANGED <<deleteVars, docVars, histVars, backupVars, temp, nrestores, pre, orig>>

\* a finished backup directory a restore can name: its characters subtree
BackupTrees ==
    {[f \in fs |-> 9] : fs \in {{<<"", "a">>}, {<<"", "a">>, <<"sub", "a">>}, {}}}

RestoreIdle ==
    /\ dret = "none"
    /\ dargs = [dots |-> "", name |-> 0 - 1, sub |-> ""]
    /\ siblings = TRUE
    /\ ndeletes = 0
    /\ temp = [ty \in {} |-> EmptyTree]
    /\ rpc = "idle"
    /\ rloc = IdleRestore
    /\ rresult = [success |-> FALSE, restored |-> <<>>]
    /\ nrestores = 0
    /\ pre = [ty \in {} |-> EmptyTree]
    /\ orig = [ty \in {} |-> EmptyTree]

\* before a restore: one finished backup (with or without metadata.json)
\* under the configured root, and live directories with or without files
RestoreInit ==
    /\ BackupIdle
    /\ retentionDays = RetentionDays
    /\ isoBasic = TRUE
    /\ HistoryInit
    /\ RestoreIdle
    /\ DocIdle
    /\ \E tree \in BackupTrees, hasMeta \in BOOLEAN :
         roots = [r \in Roots |->
                    IF r = DefaultRoot
                    THEN [n \in {0} |->
                            [meta |-> IF hasMeta
                                      THEN [id |-> 0, timestamp |-> IsoStamp(0),
                                            resources |-> <<"characters">>,
                                            fileCount |-> Cardinality(DOMAIN tree),
                                            incremental |-> FALSE]
                                      ELSE NoMeta,
                             trees |-> [ty \in {"characters"} |-> tree]]]
                    ELSE [n \in {} |-> 0]]
    /\ src \in {[ty \in {} |-> EmptyTree],
                [ty \in {"characters"} |-> [f \in {<<"", "a">>, <<"", "b">>} |-> 0]],
                [ty \in RESOURCE_CONFIG_KEYS |->
                    [f \in {<<"", "a">>, <<"", "b">>} |-> 0]]}

RestoreNextStep ==
    \/ \E backup_id \in {0, 7} : RestoreBegin(backup_id)
    \/ RestoreNext
    \/ RemoveStaleSibling
    \/ MoveAside
    \/ CopyTreeStep
    \/ RemoveSibling
    \/ RestoreFails
    \/ Crash

(***************************************************************************)
(* The specifications. The history store and the backup service share no   *)
(* state: each specification runs one of them and leaves the other as      *)
(* constructed.                                                            *)
(***************************************************************************)
vars == <<histVars, backupVars, restoreVars, docVars, deleteVars>>

HistoryNext == AppendCall

\* the history store empty, the backup service as constructed
HistoryStart ==
    /\ HistoryInit
    /\ BackupInit
    /\ isoBasic = TRUE
    /\ RestoreIdle
    /\ DocIdle

HistorySpec == HistoryStart /\ [][HistoryNext]_vars

HistoryLongNext == AppendCallLong

HistoryLongSpec == HistoryStart /\ [][HistoryLongNext]_vars

\* the backup service as constructed, no backup taken yet
BackupStart ==
    /\ BackupInit
    /\ HistoryInit
    /\ RestoreIdle
    /\ DocIdle

BackupSpec == BackupStart /\ [][BackupNext]_vars

RestoreSpec == RestoreInit /\ [][RestoreNextStep]_vars

(***************************************************************************)
(* Claims about the entry history store.                                   *)
(***************************************************************************)

\* C1: for every (scope_key, entry_uid) pair, no two rows adjacent in the
\* stored order (created_at descending, then id descending) have the same
\* snapshot hash, whatever the wall clock returned at each call.
C1_NoAdjacentDuplicates ==
    \A r \in store, q \in store :
        (r.scope = q.scope /\ r.uid = q.uid /\ Rank(store, q) = Rank(store, r) + 1)
            => r.hash # q.hash

\* the ids of the last n entries of an insert log, newest first
LastIds(log, n) == [i \in 1..n |-> log[Len(log) + 1 - i].id]

\* C2: once limit+k (k >= 1) pairwise-distinct snapshots have been inserted
\* for a pair, all with the same limit, exactly `limit` rows remain for the
\* pair, they are the `limit` most recently inserted ones, and
\* list_entry_history_records returns them newest first.
C2_LimitKeepsNewest ==
    \A doc \in Docs, uid \in UidInputs \ {""} :
        LET log == insLog[<<build_scope_key(doc), uid>>]
            L == log[1].limit
            rows == RowsOf(store, build_scope_key(doc), uid)
            items == ListEntryHistoryRecords(doc, uid, <<L>>)
        IN  (/\ Len(log) > 0
             /\ \A i \in DOMAIN log : log[i].limit = L
             /\ \A i \in DOMAIN log, j \in DOMAIN log :
                    i # j => log[i].hash # log[j].hash
             /\ Len(log) >= L + 1)
            => /\ Cardinality(rows) = L
               /\ {r.id : r \in rows} = {LastIds(log, L)[i] : i \in 1..L}
               /\ [i \in DOMAIN items |-> items[i].id] = LastIds(log, L)

\* C3: a call that repeats the previous call's document and its single
\* (entry_uid, snapshot) record returns 0 and leaves the table unchanged.
C3_SecondCallIsNoOp ==
    [][(/\ hcalls > 0
        /\ hcalls' = hcalls + 1
        /\ Len(lastArgs.records) = 1
        /\ lastArgs.records[1].entry_uid # ""
        /\ lastArgs'.doc = lastArgs.doc
        /\ lastArgs'.records = lastArgs.records)
       => (lastRet' = 0 /\ store' = store)]_vars

(***************************************************************************)
(* The backup service: trigger_backup.                                     *)
(***************************************************************************)
\* the threads inside the body of trigger_backup
InBody == {t \in Threads : pc[t] \in {"copy", "meta"}}

\* the resource types a running backup copies
Covered(t) ==
    {loc[t].todo[i] : i \in 1..Len(loc[t].todo)} \cap RESOURCE_CONFIG_KEYS \cap DOMAIN src

\* thread t takes the copy phase of an incremental backup in this step
IncrementalCopyStep(t) ==
    pc[t] = "copy" /\ pc'[t] = "meta" /\ loc[t].incremental

\* C4: at any moment at most one trigger_backup invocation is inside its
\* body (directory creation, copy, metadata write, retention cleanup), and
\* it is the one holding the lock; a concurrent caller waits.
C4_OneBackupAtATime ==
    /\ Cardinality(InBody) <= 1
    /\ \A t \in InBody : lock = t

C4_Witness ==
    \E t \in Threads, u \in Threads :
        /\ pc[t] = "meta"
        /\ pc[u] = "waiting"

\* C6: every trigger_backup invocation gets a backup directory that is not
\* yet present under its destination root, and a metadata record, once
\* written, is never changed by a later step (it can only be deleted).
C6_FreshIdAndImmutableRecord ==
    [][/\ \A t \in Threads :
            (pc[t] = "waiting" /\ pc'[t] = "copy")
                => loc'[t].id \notin DOMAIN roots[loc'[t].root]
       /\ \A r \in Roots : \A n \in (DOMAIN roots[r]) \cap (DOMAIN roots'[r]) :
            roots[r][n].meta # NoMeta => roots'[r][n].meta = roots[r][n].meta]_vars

\* C7: when a backup has completed in the destination root and no source
\* file was modified and no change recorded since, the next incremental
\* backup copies no file and counts 0 files.
C7_QuietIncrementalCopiesNothing ==
    \A t \in Threads :
        (pc[t] = "meta" /\ loc[t].incremental /\ loc[t].quiet)
            => (loc[t].copied = {} /\ loc[t].total_files = 0)

\* C8: an incremental backup into a destination root that held no earlier
\* backup copies every file of every source tree it covers.
C8_FirstIncrementalCopiesAll ==
    [][\A t \in Threads :
          (IncrementalCopyStep(t) /\ loc[t].first)
              => \A ty \in Covered(t) : \A f \in DOMAIN src[ty] :
                      <<ty, f>> \in loc'[t].copied]_vars

\* C9: an incremental backup copies every covered source file whose
\* modification time is strictly later than the timestamp recorded by the
\* most recent earlier backup of the destination root.
C9_NewerFilesAreCopied ==
    [][\A t \in Threads :
          (IncrementalCopyStep(t) /\ loc[t].prevTs # <<>>)
              => \A ty \in Covered(t) : \A f \in DOMAIN src[ty] :
                      src[ty][f] > loc[t].prevTs[1]
                          => <<ty, f>> \in loc'[t].copied]_vars

\* C10: an incremental backup copies every covered source file whose bare
\* filename was recorded by track_change for its resource type, even when
\* the file's modification time is not newer than the last backup time.
C10_TrackedFilesAreCopied ==
    [][\A t \in Threads :
          IncrementalCopyStep(t)
              => \A ty \in Covered(t) : \A f \in DOMAIN src[ty] :
                      Bare(f) \in tracker[ty] => <<ty, f>> \in loc'[t].copied]_vars

C10_Witness ==
    \E t \in Threads : \E ty \in RESOURCE_CONFIG_KEYS \cap DOMAIN src :
        \E f \in DOMAIN src[ty] :
            /\ pc[t] = "meta"
            /\ loc[t].incremental
            /\ loc[t].last # <<>>
            /\ src[ty][f] <= loc[t].last[1]
            /\ Bare(f) \in tracker[ty]
            /\ <<ty, f>> \in loc[t].copied
            /\ \E g \in DOMAIN src[ty] : <<ty, g>> \notin loc[t].copied

(***************************************************************************)
(* The backup service: restore_backup.                                     *)
(***************************************************************************)
\* the live directory of ty holds exactly what some backup holds for it
FullyRestored(ty) ==
    \E id \in DOMAIN roots[DefaultRoot] :
        /\ ty \in DOMAIN roots[DefaultRoot][id].trees
        /\ DirOf(src, ty) = <<roots[DefaultRoot][id].trees[ty]>>

\* C5: at every step of one restore_backup call, and after it crashed or
\* failed, a resource type that had live data still has that data complete
\* (in the live directory or in the .restore_backup sibling), or its live
\* directory holds the fully restored data.
C5_OriginalOrRestored ==
    \A ty \in DOMAIN pre :
        \/ DirOf(src, ty) = <<pre[ty]>>
        \/ DirOf(temp, ty) = <<pre[ty]>>
        \/ FullyRestored(ty)

C5_Witness ==
    \E ty \in (DOMAIN pre) \cap (DOMAIN src) :
        /\ rpc = "idle"
        /\ ~rresult.success
        /\ nrestores = 1
        /\ src[ty] # pre[ty]
        /\ ~FullyRestored(ty)
        /\ DOMAIN src[ty] # {}
        /\ DirOf(temp, ty) = <<pre[ty]>>

\* C11: an id recorded by track_change before a completed backup, and not
\* recorded again since, does not make a later incremental backup copy
\* its file when the file is not newer than the last backup time.
C11_StaleChangeIsNotCopied ==
    [][\A t \in Threads :
          (IncrementalCopyStep(t) /\ loc[t].quiet /\ GetLastBackupTime # <<>>)
              => \A ty \in Covered(t) : \A f \in DOMAIN src[ty] :
                      (Bare(f) \in tracker[ty] /\ src[ty][f] <= GetLastBackupTime[1])
                          => <<ty, f>> \notin loc'[t].copied]_vars

(***************************************************************************)
(* Full backups of two live directories by one caller.                     *)
(***************************************************************************)
\* `resources` arguments of the full backups: <<>> stands for None
ArchiveArgs == {<<>>, <<"characters">>, <<"worldbooks">>}

\* both live directories exist
ArchiveInit ==
    /\ BackupIdle
    /\ retentionDays = RetentionDays
    /\ isoBasic = TRUE
    /\ src = [ty \in RESOURCE_CONFIG_KEYS |-> [f \in SourceFiles(ty) |-> 0]]
    /\ roots = [r \in Roots |-> [n \in {} |-> 0]]
    /\ HistoryInit
    /\ RestoreIdle
    /\ DocIdle

ArchiveNext ==
    \/ Call("t1")
    \/ \E resources \in ArchiveArgs :
          AcquireAndStart("t1", resources, DefaultRoot, FALSE)
    \/ CopyResources("t1")
    \/ \E n \in 0..1 : CopyFails("t1", n)
    \/ FinishBackup("t1")
    \/ ModifyFile("characters", <<"sub", "a">>)
    \/ Tick

ArchiveSpec == ArchiveInit /\ [][ArchiveNext]_vars

\* the files of a backup directory, over all its resource subtrees
ArchiveFiles(dir) ==
    UNION {{<<ty, f>> : f \in DOMAIN dir.trees[ty]} : ty \in DOMAIN dir.trees}

\* the files of the live directories of the resource types in the list
LiveFiles(types) ==
    UNION {{<<types[i], f>> : f \in DOMAIN src[types[i]]} : i \in 1..Len(types)}

\* C12: a full backup over source trees holding N files produces an archive
\* whose resource subtrees hold exactly those N files, and the metadata
\* record it writes has fileCount = N.
C12_FullBackupHoldsExactlySource ==
    [][\A t \in Threads :
          (pc[t] = "meta" /\ pc'[t] = "idle" /\ ~loc[t].incremental)
              => LET dir == roots'[loc[t].root][loc[t].id]
                     live == LiveFiles(loc[t].backed_up)
                 IN  /\ ArchiveFiles(dir) = live
                     /\ dir.meta.fileCount = Cardinality(live)]_vars

\* C13: when restore_backup(b) returns success, the live directory of every
\* resource type in its `restored` list holds exactly the files of b's
\* subtree for that type, and the live directory of every other resource
\* type is as the call found it.
C13_RestoredEqualsBackup ==
    [][(rpc = "next" /\ rpc' = "idle" /\ rresult'.success)
          => LET done == {rresult'.restored[i] : i \in 1..Len(rresult'.restored)}
                 trees == roots[DefaultRoot][rloc.id].trees
             IN  /\ \A ty \in done :
                        ty \in DOMAIN trees /\ DirOf(src, ty) = <<trees[ty]>>
                 /\ \A ty \in RESOURCE_CONFIG_KEYS \ done :
                        DirOf(src, ty) = DirOf(pre, ty)]_vars

C13_Witness ==
    /\ rpc = "idle"
    /\ rresult.success
    /\ rresult.restored = <<"characters">>
    /\ "characters" \in DOMAIN pre
    /\ <<"", "b">> \in DOMAIN pre["characters"]
    /\ <<"", "b">> \notin DOMAIN src["characters"]
    /\ <<"", "a">> \in DOMAIN src["characters"]
    /\ "worldbooks" \in DOMAIN src

\* C14: when, within one trigger_backup call, one requested resource type
\* fails to copy after another was copied, the call still returns success
\* and has written its metadata record.
C14_PartialFailureStillSucceeds ==
    [][\A t \in Threads :
          LET l == loc[t]
          IN  (/\ pc[t] = "copy"
               /\ pc'[t] = "idle"
               /\ DOMAIN roots'[l.root][l.id].trees # DOMAIN roots[l.root][l.id].trees)
                  => (/\ result'[t].success
                      /\ roots'[l.root][l.id].meta # NoMeta)]_vars

\* C15: when a step of trigger_backup raises, the call returns a failure
\* result, what it had copied stays in its backup directory, and no backup
\* finished before the call is altered.
C15_FailureLeavesBackupsAlone ==
    [][\A t \in Threads :
          (pc[t] = "copy" /\ pc'[t] = "idle")
              => /\ ~result'[t].success
                 /\ \A r \in Roots : \A n \in DOMAIN roots[r] :
                        roots[r][n].meta # NoMeta
                            => (n \in DOMAIN roots'[r] /\ roots'[r][n] = roots[r][n])]_vars

(***************************************************************************)
(* Backups into a root that holds backups of about a month ago.            *)
(***************************************************************************)
\* the ages, in days, of the backups the root holds at the start
OldDays == {29, 30, 31}

\* the directory name (a second) of the backup taken d days before tick 0
OldName(d) == 0 - d * 24 * 3600

\* retentionDays as configured: pruning disabled, or the default
RetentionInputs == {0, RetentionDays}

RetentionInit ==
    /\ BackupIdle
    /\ isoBasic = TRUE
    /\ retentionDays \in RetentionInputs
    /\ src = [ty \in ExistingSources |-> [f \in SourceFiles(ty) |-> 0]]
    /\ \E withMeta \in SUBSET OldDays :
         roots = [r \in Roots |->
                    IF r = DefaultRoot
                    THEN [n \in {OldName(d) : d \in OldDays} |->
                            [meta |-> IF \E d \in withMeta : n = OldName(d)
                                      THEN [id |-> n,
                                            timestamp |-> IsoStamp(DirMtime(n)),
                                            resources |-> <<"characters">>,
                                            fileCount |-> 0,
                                            incremental |-> FALSE]
                                      ELSE NoMeta,
                             trees |-> [ty \in {"characters"} |-> EmptyTree]]]
                    ELSE [n \in {} |-> 0]]
    /\ HistoryInit
    /\ RestoreIdle
    /\ DocIdle

RetentionNext ==
    \/ Call("t1")
    \/ \E backup_path \in Roots, incremental \in BOOLEAN :
          AcquireAndStart("t1", <<>>, backup_path, incremental)
    \/ CopyResources("t1")
    \/ CopyFails("t1", 0)
    \/ FinishBackup("t1")
    \/ Tick

RetentionSpec == RetentionInit /\ [][RetentionNext]_vars

\* the age in ticks, at tick now, of directory n of the listing dirs
AgeOf(dirs, n, now) ==
    IF dirs[n].meta # NoMeta THEN now - dirs[n].meta.timestamp.t
    ELSE now - DirMtime(n)

\* C16: after a successful trigger_backup with retentionDays = R > 0, every
\* backup directory of the destination root older than R days is deleted
\* and every one younger than R days, the new one included, is present;
\* with R = 0 nothing is deleted.
C16_RetentionByAge ==
    [][\A t \in Threads :
          (pc[t] = "meta" /\ pc'[t] = "idle" /\ result'[t].success)
              => LET r == loc[t].root
                     id == loc[t].id
                     before == roots[r]
                     after == DOMAIN roots'[r]
                     age(n) == IF n = id THEN 0 ELSE AgeOf(before, n, clock)
                 IN  /\ id \in after
                     /\ after \subseteq DOMAIN before
                     /\ retentionDays = 0 => after = DOMAIN before
                     /\ retentionDays > 0 =>
                          \A n \in DOMAIN before :
                              /\ age(n) > retentionDays * DayTicks => n \notin after
                              /\ age(n) < retentionDays * DayTicks => n \in after]_vars

C16_Witness ==
    /\ retentionDays = RetentionDays
    /\ result["t1"].success
    /\ pc["t1"] = "idle"
    /\ DOMAIN roots[DefaultRoot] \cap {OldName(d) : d \in OldDays} = {OldName(29)}
    /\ roots[DefaultRoot][OldName(29)].meta = NoMeta
    /\ \E n \in DOMAIN roots[DefaultRoot] : n >= 0

(***************************************************************************)
(*                    ENTRY UIDS OF A DOCUMENT                             *)
(***************************************************************************)
\* entries of one document in the uid checks
MaxEntries == 3
\* ensure_entry_uids calls in one behaviour
MaxEnsure == 2

\* the st_manager_uid field as it is found: missing (""), blank, plain, or
\* with surrounding white space
RawUids == {"", " ", "a", " a", "b"}

\* str(x or '').strip() on the values of RawUids and on generated uids
Strip(s) == CASE s = " " -> "" [] s = " a" -> "a" [] OTHER -> s

\* the uids uuid4 yields, in the order it yields them
FreshPool == <<"wi-1", "wi-2", "wi-3", "wi-4", "wi-5">>

\* the shapes of book_data: a list, a mapping whose `entries` is a list or
\* a mapping, and anything else
Shapes == {"list", "entries_list", "entries_map"}
NoBook == [shape |-> "none", entries |-> <<>>]

\* sequences over S of length at most n
SeqsUpTo(S, n) == UNION {[1..k -> S] : k \in 0..n}

UidEntries == [uid : RawUids, text : {"x"}, displayIndex : {0}]
UidBooks ==
    {NoBook} \cup [shape : Shapes, entries : SeqsUpTo(UidEntries, MaxEntries)]

\* _get_entries_ref: the entries of a document, in document order
GetEntriesRef(book_data) ==
    IF book_data.shape \in Shapes THEN book_data.entries ELSE <<>>

\* the uids of a sequence of entries, as stored and stripped
UidsOf(entries) ==
    {entries[i].uid : i \in 1..Len(entries)}
        \cup {Strip(entries[i].uid) : i \in 1..Len(entries)}

\* uuid4: the first uid of the pool that is in use nowhere
FreshUid(avoid) ==
    FreshPool[CHOOSE i \in 1..Len(FreshPool) :
                 /\ FreshPool[i] \notin avoid
                 /\ \A j \in 1..(i - 1) : FreshPool[j] \in avoid]

\* a test that replaces blank uids only
IsBlankUid(uid, used) == uid = ""

\* a test that replaces every uid
AlwaysFresh(uid, used) == TRUE

\* line 86: `if not uid or uid in used`
NeedsFresh(uid, used) == uid = "" \/ uid \in used

\* the loop of ensure_entry_uids from entry i on: [entries, changed]
RECURSIVE EnsureLoop(_, _, _, _)
EnsureLoop(entries, i, used, changed) ==
    IF i > Len(entries) THEN [entries |-> entries, changed |-> changed]
    ELSE LET raw == entries[i].uid
             uid == Strip(raw)
         IN  IF NeedsFresh(uid, used)
             THEN LET new == FreshUid(used \cup UidsOf(entries))
                  IN  EnsureLoop([entries EXCEPT ![i].uid = new], i + 1,
                                 used \cup {new}, TRUE)
             ELSE EnsureLoop([entries EXCEPT ![i].uid = uid], i + 1,
                             used \cup {uid}, changed \/ raw # uid)

\* ensure_entry_uids(book_data): the entries are rewritten in place
EnsureEntryUids ==
    LET out == EnsureLoop(GetEntriesRef(book), 1, {}, FALSE)
    IN  /\ ensured < MaxEnsure
        /\ ensured' = ensured + 1
        /\ book' = IF book.shape \in Shapes
                   THEN [book EXCEPT !.entries = out.entries]
                   ELSE book
        /\ uidChanged' = out.changed
        /\ UNCHANGED <<deleteVars, histVars, backupVars, restoreVars, keyArgs, keyRet, incoming, versions, collected>>

UidInit ==
    /\ HistoryInit
    /\ BackupInit
    /\ isoBasic = TRUE
    /\ RestoreIdle
    /\ book \in UidBooks
    /\ incoming = NoBook
    /\ uidChanged = FALSE
    /\ versions = <<>>
    /\ ensured = 0
    /\ collected = FALSE
    /\ keyArgs = <<>>
    /\ keyRet = <<>>

UidNext == EnsureEntryUids

UidSpec == UidInit /\ [][UidNext]_vars

\* C17: after ensure_entry_uids every entry of the document has a
\* non-empty uid and the uids are pairwise distinct.
C17_UidsPresentAndDistinct ==
    ensured > 0 =>
        LET entries == GetEntriesRef(book)
        IN  /\ \A i \in 1..Len(entries) : Strip(entries[i].uid) # ""
            /\ \A i \in 1..Len(entries) : \A j \in 1..Len(entries) :
                   i # j => entries[i].uid # entries[j].uid

C17_Witness ==
    /\ ensured = 1
    /\ uidChanged
    /\ book.shape = "entries_map"
    /\ Len(book.entries) = 3
    /\ book.entries[1].uid = "a"
    /\ book.entries[2].uid = "wi-1"
    /\ book.entries[3].uid = "wi-2"

\* the entries whose uid is the first occurrence of its value, by the test
\* same(u, v) on two stored uids
FirstOccurrences(entries, same(_, _)) ==
    {i \in 1..Len(entries) :
        \A j \in 1..(i - 1) : ~same(entries[j].uid, entries[i].uid)}

SameRaw(u, v) == u = v
SameStripped(u, v) == Strip(u) = Strip(v)

\* a call of ensure_entry_uids is this step
EnsureStep == ensured' = ensured + 1

\* the second of two consecutive calls changes nothing and returns False
SecondCallIdle ==
    (EnsureStep /\ ensured > 0) => (book' = book /\ ~uidChanged')

\* C18 as stated: ensure_entry_uids keeps the uid of every entry whose uid
\* is non-empty and is the first occurrence of that uid in document order,
\* and a second consecutive call changes nothing and reports no change.
C18_NonEmptyUidKept ==
    [][/\ EnsureStep =>
            LET entries == GetEntriesRef(book)
            IN  \A i \in FirstOccurrences(entries, SameRaw) :
                    entries[i].uid # ""
                        => GetEntriesRef(book')[i].uid = entries[i].uid
       /\ SecondCallIdle]_vars

\* C18 amended: ensure_entry_uids keeps the uid of every entry whose uid is
\* non-blank, carries no surrounding white space, and is the first
\* occurrence of that uid (compared after stripping) in document order;
\* a second consecutive call changes nothing and reports no change.
C18_TrimmedUidKept ==
    [][/\ EnsureStep =>
            LET entries == GetEntriesRef(book)
            IN  \A i \in FirstOccurrences(entries, SameStripped) :
                    (entries[i].uid # "" /\ Strip(entries[i].uid) = entries[i].uid)
                        => GetEntriesRef(book')[i].uid = entries[i].uid
       /\ SecondCallIdle]_vars

C18_Witness ==
    /\ ensured = 2
    /\ ~uidChanged
    /\ Len(book.entries) = 3
    /\ book.entries[1].uid = "b"
    /\ book.entries[2].uid = "wi-1"
    /\ book.entries[3].uid = "a"

(***************************************************************************)
(*              PREVIOUS VERSIONS OF A SAVED DOCUMENT                      *)
(***************************************************************************)
\* entries of one document in the version checks
MaxVersionEntries == 2

VersionUids == {"", "a", " a", "b"}
\* authored text and the transient display index of an entry
VersionContents == {<<"x", 0>>, <<"x", 1>>, <<"y", 0>>}
VersionEntries ==
    {[uid |-> u, text |-> c[1], displayIndex |-> c[2]] :
        u \in VersionUids, c \in VersionContents}
VersionBooks ==
    {NoBook} \cup [shape : {"list"},
                   entries : SeqsUpTo(VersionEntries, MaxVersionEntries)]

\* old_by_uid.get(uid): the index of the first old entry with that uid, or
\* 0 for None
OldByUid(old_entries, uid) ==
    LET hits == {j \in 1..Len(old_entries) : Strip(old_entries[j].uid) = uid}
    IN  IF hits = {} THEN 0 ELSE CHOOSE j \in hits : \A k \in hits : j <= k

\* a match that falls back on the old entry at the same index whatever its uid
MatchByPosition(old_entries, idx, uid) ==
    IF OldByUid(old_entries, uid) # 0 THEN OldByUid(old_entries, uid)
    ELSE IF idx <= Len(old_entries) THEN idx
    ELSE 0

\* lines 133-138: the old entry a new entry is compared with (its index, 0
\* for None): by uid, else the old entry at the same index when that one
\* has no uid
MatchOld(old_entries, idx, uid) ==
    IF OldByUid(old_entries, uid) # 0 THEN OldByUid(old_entries, uid)
    ELSE IF idx <= Len(old_entries) /\ Strip(old_entries[idx].uid) = "" THEN idx
    ELSE 0

\* a record that carries the snapshot of the new entry
RecordOfNew(old_entry, new_entry, uid) ==
    IF SnapshotHash(SnapshotEntry(old_entry, uid))
          # SnapshotHash(SnapshotEntry(new_entry, uid))
    THEN <<[entry_uid |-> uid, snapshot |-> SnapshotEntry(new_entry, uid)]>>
    ELSE <<>>

\* lines 143-150: the record of a superseded entry, or nothing when the
\* canonical snapshots hash alike
VersionRecord(old_entry, new_entry, uid) ==
    IF SnapshotHash(SnapshotEntry(old_entry, uid))
          # SnapshotHash(SnapshotEntry(new_entry, uid))
    THEN <<[entry_uid |-> uid, snapshot |-> SnapshotEntry(old_entry, uid)]>>
    ELSE <<>>

\* the loop over the new entries from index idx on
RECURSIVE CollectLoop(_, _, _)
CollectLoop(old_entries, new_entries, idx) ==
    IF idx > Len(new_entries) THEN <<>>
    ELSE LET uid == Strip(new_entries[idx].uid)
             j == MatchOld(old_entries, idx, uid)
             rest == CollectLoop(old_entries, new_entries, idx + 1)
         IN  IF uid = "" \/ j = 0 THEN rest
             ELSE VersionRecord(old_entries[j], new_entries[idx], uid) \o rest

collect_previous_versions(old_book, new_book) ==
    LET old_entries == GetEntriesRef(old_book)
        new_entries == GetEntriesRef(new_book)
    IN  IF old_entries = <<>> \/ new_entries = <<>> THEN <<>>
        ELSE CollectLoop(old_entries, new_entries, 1)

\* a save compares the stored document with its new version
CollectPreviousVersions ==
    /\ ~collected
    /\ collected' = TRUE
    /\ versions' = collect_previous_versions(book, incoming)
    /\ UNCHANGED <<deleteVars, histVars, backupVars, restoreVars, keyArgs, keyRet, book, incoming, uidChanged, ensured>>

VersionInit ==
    /\ HistoryInit
    /\ BackupInit
    /\ isoBasic = TRUE
    /\ RestoreIdle
    /\ book \in VersionBooks
    /\ incoming \in VersionBooks
    /\ uidChanged = FALSE
    /\ versions = <<>>
    /\ ensured = 0
    /\ collected = FALSE
    /\ keyArgs = <<>>
    /\ keyRet = <<>>

VersionNext == CollectPreviousVersions

VersionSpec == VersionInit /\ [][VersionNext]_vars

\* the k-th smallest element of a set of numbers
Nth(S, k) == CHOOSE i \in S : Cardinality({j \in S : j < i}) = k - 1

\* the uids of the entries are non-blank and pairwise distinct
DistinctUids(entries) ==
    /\ \A i \in 1..Len(entries) : Strip(entries[i].uid) # ""
    /\ \A i \in 1..Len(entries) : \A j \in 1..Len(entries) :
           i # j => Strip(entries[i].uid) # Strip(entries[j].uid)

\* C19: collect_previous_versions emits a record for a new entry exactly
\* when the entry has a uid, is matched to an old entry and the two differ
\* in authored content; the record carries the old entry's canonical
\* snapshot under the new entry's uid, in the order of the new entries;
\* collect_previous_versions(D, D) is empty when D has distinct uids.
C19_RecordsOfSupersededEntries ==
    collected =>
        LET old == GetEntriesRef(book)
            new == GetEntriesRef(incoming)
            uid(i) == Strip(new[i].uid)
            emits == {i \in 1..Len(new) :
                        /\ uid(i) # ""
                        /\ MatchOld(old, i, uid(i)) # 0
                        /\ old[MatchOld(old, i, uid(i))].text # new[i].text}
        IN  /\ Len(versions) = Cardinality(emits)
            /\ \A k \in 1..Len(versions) :
                   LET i == Nth(emits, k)
                   IN  versions[k] =
                         [entry_uid |-> uid(i),
                          snapshot |-> [text |-> old[MatchOld(old, i, uid(i))].text,
                                        st_manager_uid |-> uid(i)]]
            /\ (book = incoming /\ DistinctUids(old)) => versions = <<>>

C19_Witness ==
    /\ collected
    /\ Len(book.entries) = 2
    /\ Len(incoming.entries) = 2
    /\ book.entries[1] = [uid |-> "a", text |-> "x", displayIndex |-> 0]
    /\ incoming.entries[1] = [uid |-> " a", text |-> "y", displayIndex |-> 0]
    /\ book.entries[2] = [uid |-> "b", text |-> "x", displayIndex |-> 0]
    /\ incoming.entries[2] = [uid |-> "b", text |-> "x", displayIndex |-> 1]
    /\ versions = <<[entry_uid |-> "a",
                     snapshot |-> [text |-> "x", st_manager_uid |-> "a"]]>>

\* new_entries is old_entries in another order (uid and authored text)
Reordered(old_entries, new_entries) ==
    /\ Len(old_entries) = Len(new_entries)
    /\ \E f \in [1..Len(old_entries) -> 1..Len(old_entries)] :
          /\ \A i \in 1..Len(old_entries) : \A j \in 1..Len(old_entries) :
                 i # j => f[i] # f[j]
          /\ \A i \in 1..Len(old_entries) :
                 /\ Strip(new_entries[i].uid) = Strip(old_entries[f[i]].uid)
                 /\ new_entries[i].text = old_entries[f[i]].text

\* C20: a new entry whose uid matches no old entry is compared with the
\* old entry at the same index only when that old entry has no uid; every
\* record is built from an old entry with the record's uid or with no uid,
\* and a reordering of entries that all have distinct uids yields no record.
C20_NoMatchAcrossUids ==
    collected =>
        LET old == GetEntriesRef(book)
            new == GetEntriesRef(incoming)
        IN  /\ \A i \in 1..Len(new) :
                   LET uid == Strip(new[i].uid)
                       j == MatchOld(old, i, uid)
                   IN  (uid # "" /\ j # 0)
                          => \/ Strip(old[j].uid) = uid
                             \/ (/\ j = i
                                 /\ Strip(old[j].uid) = ""
                                 /\ \A k \in 1..Len(old) : Strip(old[k].uid) # uid)
            /\ \A k \in 1..Len(versions) :
                   \E j \in 1..Len(old) :
                       /\ Strip(old[j].uid) \in {versions[k].entry_uid, ""}
                       /\ old[j].text = versions[k].snapshot.text
            /\ (DistinctUids(old) /\ Reordered(old, new)) => versions = <<>>

C20_Witness ==
    /\ collected
    /\ Len(book.entries) = 2
    /\ Len(incoming.entries) = 2
    /\ book.entries[1] = [uid |-> "a", text |-> "x", displayIndex |-> 0]
    /\ book.entries[2] = [uid |-> "b", text |-> "y", displayIndex |-> 0]
    /\ incoming.entries[1] = [uid |-> "b", text |-> "y", displayIndex |-> 0]
    /\ incoming.entries[2] = [uid |-> "a", text |-> "x", displayIndex |-> 1]
    /\ versions = <<>>

(***************************************************************************)
(* The history store with calls that fail part-way.                        *)
(***************************************************************************)
StoreFailNext ==
    \/ AppendCall
    \/ AppendFailsCall

StoreFailSpec == HistoryStart /\ [][StoreFailNext]_vars

\* C21 as stated: a call during which the store fails returns the number of
\* records it had inserted before the failure.
C21_ReturnsCountInsertedBeforeFailure ==
    [][(hcalls' = hcalls + 1 /\ lastArgs'.failedAt > 0)
          => lastRet' = lastArgs'.done]_vars

\* C21: an append_entry_history_records call during which the store fails
\* returns 0 (it does not raise), and none of the rows it inserted before the
\* failure is stored: the table is as it was before the call.
C21_FailedCallReturnsZeroAndStoresNothing ==
    [][(hcalls' = hcalls + 1 /\ lastArgs'.failedAt > 0)
          => /\ lastRet' = 0
             /\ store' = store]_vars

C21_Witness ==
    /\ hcalls = 2
    /\ lastArgs.failedAt = 2
    /\ lastArgs.done = 1
    /\ lastRet = 0
    /\ Cardinality(store) = 1

(***************************************************************************)
(* build_scope_key asked about two documents.                              *)
(***************************************************************************)
\* source_type, source_id and file_path arguments
ScopeTypes == {<<"a">>, <<" ", "A">>, <<"b">>, <<>>}
ScopeIds == {<<>>, <<"/", "x">>, <<"y">>}
ScopePaths ==
    {<<>>, <<"/", "x">>, <<"/", "/", "/", "x", "/">>, <<"/", "x", "\\">>,
     <<"x">>, <<"/", ".", ".", "/", "x", "|">>, <<"/", "y">>}
ScopeDocs == ScopeTypes \X ScopeIds \X ScopePaths

ScopeInit ==
    /\ HistoryInit
    /\ BackupIdle
    /\ retentionDays = RetentionDays
    /\ isoBasic = TRUE
    /\ src = [ty \in {} |-> <<>>]
    /\ roots = [r \in Roots |-> EmptyTree]
    /\ RestoreIdle
    /\ book = [shape |-> "none", entries |-> <<>>]
    /\ incoming = [shape |-> "none", entries |-> <<>>]
    /\ uidChanged = FALSE
    /\ versions = <<>>
    /\ ensured = 0
    /\ collected = FALSE
    /\ keyArgs \in ScopeDocs \X ScopeDocs
    /\ keyRet = <<>>

\* the two calls of build_scope_key
BuildScopeKeys ==
    /\ keyRet = <<>>
    /\ keyRet' = <<build_scope_key(keyArgs[1]), build_scope_key(keyArgs[2])>>
    /\ UNCHANGED <<deleteVars, histVars, backupVars, restoreVars, book, incoming,
                   uidChanged, versions, ensured, collected, keyArgs>>

ScopeNext == BuildScopeKeys

ScopeSpec == ScopeInit /\ [][ScopeNext]_vars

\* the two documents differ in source type or in source id
DifferentDocument(d1, d2) ==
    \/ NormalizeType(d1[1]) # NormalizeType(d2[1])
    \/ ReplaceBackslash(StripChars(d1[2])) # ReplaceBackslash(StripChars(d2[2]))

\* C23: for two calls with non-empty paths the keys are equal exactly when
\* the normalized source types are equal and the normalized absolute paths
\* are equal, whatever the ids; and a key built from a path never equals a
\* key built from (type, source id) with an empty path for a different
\* document.
C23_KeyEqualityIsDocumentEquality ==
    keyRet # <<>> =>
        LET d1 == keyArgs[1]
            d2 == keyArgs[2]
        IN  /\ (d1[3] # <<>> /\ d2[3] # <<>>)
                  => ((keyRet[1] = keyRet[2])
                        <=> (/\ NormalizeType(d1[1]) = NormalizeType(d2[1])
                             /\ NormalizePath(d1[3]) = NormalizePath(d2[3])))
            /\ (d1[3] # <<>> /\ d2[3] = <<>> /\ DifferentDocument(d1, d2))
                  => keyRet[1] # keyRet[2]

(***************************************************************************)
(* Histories of two documents, listed.                                     *)
(***************************************************************************)
\* `limit` arguments of list_entry_history_records
ListLimits == LimitInputs \cup {<<2>>, <<MAX_HISTORY_LIMIT + 1>>}

\* `records` arguments: one version of u1 or of u2, or two versions of u1
ListRecordLists ==
    {<<[entry_uid |-> u, snapshot |-> [text |-> t, displayIndex |-> 0]]>> :
        u \in {"u1", "u2"}, t \in {"x", "y"}}
    \cup {<<[entry_uid |-> "u1", snapshot |-> [text |-> "x", displayIndex |-> 0]],
            [entry_uid |-> "u1", snapshot |-> [text |-> "y", displayIndex |-> 1]]>>}

ListAppendCall ==
    \E doc \in ListDocs, records \in ListRecordLists, limit \in {<<>>, <<1>>},
       now_ts \in Times :
        AppendEntryHistoryRecords(doc, records, limit, now_ts, MaxCalls)

ListNext == ListAppendCall

ListSpec == HistoryStart /\ [][ListNext]_vars

\* the effective limit the claim names: default 7, clamped to 1..100
ClaimedLimit(limit) ==
    IF limit = <<>> THEN 7
    ELSE IF limit[1] < 1 THEN 1 ELSE IF limit[1] > 100 THEN 100 ELSE limit[1]

\* C22: list_entry_history_records returns only rows of the requested
\* (scope key, entry uid), most recent first (created_at descending, id
\* descending among equal times), at most `limit` of them (clamped to 1..100,
\* 7 by default); it returns the empty sequence when the uid is blank, when
\* nothing is stored for the pair and when the store fails.
C22_ListIsNewestFirstAndBounded ==
    \A doc \in ListDocs, uid \in UidInputs, limit \in ListLimits :
        \A items \in ListOutcomes(doc, uid, limit) :
            LET rows == RowsOf(store, build_scope_key(doc), uid)
            IN  /\ \A i \in DOMAIN items :
                       \E r \in rows : /\ r.id = items[i].id
                                       /\ r.ts = items[i].created_at
                                       /\ r.snap = items[i].snapshot
                /\ \A i \in DOMAIN items, j \in DOMAIN items :
                       i < j => \/ items[i].created_at > items[j].created_at
                                \/ /\ items[i].created_at = items[j].created_at
                                   /\ items[i].id > items[j].id
                /\ Len(items) <= ClaimedLimit(limit)
                /\ (uid = "" \/ rows = {}) => items = <<>>

C22_Witness ==
    \E d1 \in ListDocs, d2 \in ListDocs :
        /\ d1 # d2
        /\ Cardinality(RowsOf(store, build_scope_key(d1), "u1")) = 2
        /\ RowsOf(store, build_scope_key(d2), "u1") # {}
        /\ Len(ListEntryHistoryRecords(d1, "u1", <<>>)) = 2
        /\ Len(ListEntryHistoryRecords(d1, "u1", <<0>>)) = 1
        /\ LET items == ListEntryHistoryRecords(d1, "u1", <<>>)
           IN  /\ items[1].created_at = items[2].created_at
               /\ items[1].id > items[2].id

\* list.sort(key=timestamp, reverse=True) on a set of records
RECURSIVE SortDescending(_)
SortDescending(recs) ==
    IF recs = {} THEN <<>>
    ELSE LET first == CHOOSE b \in recs :
                          \A c \in recs : ~StrLess(b.timestamp, c.timestamp)
         IN  <<first>> \o SortDescending(recs \ {first})

\* list_backups()
ListBackups == SortDescending(BackupRecords)

\* the time a listed record stands for, in ticks
BackupTime(rec) ==
    IF rec.timestamp.fmt = "iso" THEN rec.timestamp.t
    ELSE rec.timestamp.t * TicksPerSecond

\* C24: list_backups returns one record per backup directory under the
\* root, newest first by backup time, also when backups with metadata and
\* backups without (their time taken from the directory name) are mixed.
C24_ListedNewestFirst ==
    LET items == ListBackups
        dirs == roots[DefaultRoot]
    IN  /\ Len(items) = Cardinality(DOMAIN dirs)
        /\ \A n \in DOMAIN dirs :
               Cardinality({i \in DOMAIN items : items[i].id = n}) = 1
        /\ \A i \in DOMAIN items, j \in DOMAIN items :
               i < j => BackupTime(items[i]) >= BackupTime(items[j])

\* the same, for roots whose backups all have metadata or all have none
C24_UnmixedListedNewestFirst ==
    LET items == ListBackups
        dirs == roots[DefaultRoot]
    IN  (\A i \in DOMAIN items, j \in DOMAIN items :
             items[i].timestamp.fmt = items[j].timestamp.fmt)
        => /\ Len(items) = Cardinality(DOMAIN dirs)
           /\ \A i \in DOMAIN items, j \in DOMAIN items :
                  i < j => BackupTime(items[i]) >= BackupTime(items[j])

\* a completed append call is this step
AppendStep == hcalls' = hcalls + 1 /\ lastArgs'.failedAt = 0

\* the pairs named by the valid records of the latest call
NamedPairs(args) ==
    {<<build_scope_key(args.doc), CleanRecords(args.records)[i].entry_uid>> :
        i \in DOMAIN CleanRecords(args.records)}

\* C25 as stated: after a completed append call with effective limit L every
\* pair named by a valid record of the call has at most L rows, whether or
\* not the record was inserted.
C25_NamedPairsWithinLimit ==
    [][AppendStep =>
          \A p \in NamedPairs(lastArgs') :
              Cardinality(RowsOf(store', p[1], p[2])) <= ClaimedLimit(lastArgs'.limit)]_vars

\* C25: after a completed append call with effective limit L every pair for
\* which the call inserted a record has at most L rows, whatever limits the
\* earlier calls used.
C25_InsertedPairsWithinLimit ==
    [][AppendStep =>
          \A p \in NamedPairs(lastArgs') :
              Len(insLog'[p]) > Len(insLog[p])
                  => Cardinality(RowsOf(store', p[1], p[2]))
                        <= ClaimedLimit(lastArgs'.limit)]_vars

C25_Witness ==
    \E p \in Pairs :
        /\ hcalls = 2
        /\ lastArgs.failedAt = 0
        /\ lastArgs.limit = <<1>>
        /\ Len(insLog[p]) = 3
        /\ insLog[p][1].limit = DEFAULT_HISTORY_LIMIT
        /\ insLog[p][2].limit = DEFAULT_HISTORY_LIMIT
        /\ insLog[p][3].limit = 1
        /\ Cardinality(RowsOf(store, p[1], p[2])) = 1

(***************************************************************************)
(* Two callers of trigger_backup under fair scheduling.                    *)
(***************************************************************************)
LockNext ==
    \/ \E t \in Threads : Call(t)
    \/ \E t \in Threads, incremental \in BOOLEAN :
          AcquireAndStart(t, <<>>, DefaultRoot, incremental)
    \/ \E t \in Threads : CopyResources(t)
    \/ \E t \in Threads : CopyFails(t, 0)
    \/ \E t \in Threads : FinishBackup(t)
    \/ Tick

\* a thread that can take the lock again and again eventually takes it; a
\* thread inside the `with` block keeps running: its copy ends (or raises)
\* and its metadata write and cleanup end
LockFairness ==
    \A t \in Threads :
        /\ SF_vars(\E incremental \in BOOLEAN :
                      AcquireAndStart(t, <<>>, DefaultRoot, incremental))
        /\ WF_vars(CopyResources(t) \/ CopyFails(t, 0))
        /\ WF_vars(FinishBackup(t))

LockFairSpec == BackupStart /\ [][LockNext]_vars /\ LockFairness

\* C26: every trigger_backup invocation that has the lock eventually returns
\* a success or a failure result with the lock released; no step of a thread
\* holding the lock makes it wait for the lock; and every caller waiting for
\* the lock eventually gets it.
C26_LockIsReleasedAndWaitersRun ==
    /\ \A t \in Threads : (lock = t) ~> (lock # t /\ pc[t] = "idle")
    /\ \A t \in Threads : (pc[t] = "waiting") ~> (lock = t)
    /\ [][\A t \in Threads :
             /\ (lock = t) => pc'[t] # "waiting"
             /\ (lock = t /\ lock' # t) => pc'[t] = "idle"]_vars

C26_Witness ==
    \E t \in Threads, u \in Threads :
        /\ lock = t
        /\ pc[t] = "copy"
        /\ pc[u] = "waiting"
        /\ nbackups = MaxBackups

(***************************************************************************)
(* Restores that fail or are cut short while the tree is copied.           *)
(***************************************************************************)
\* shutil.copytree raises (line 359)
CopyTreeRaises == rpc = "copy" /\ RestoreFails

\* the process dies while shutil.copytree runs
CrashInCopy == rpc = "copy" /\ Crash

RetryNext ==
    \/ \E backup_id \in {0, 7} : RestoreBegin(backup_id)
    \/ RestoreNext
    \/ RemoveStaleSibling
    \/ MoveAside
    \/ CopyTreeStep
    \/ RemoveSibling
    \/ CopyTreeRaises
    \/ CrashInCopy

RetrySpec == RestoreInit /\ [][RetryNext]_vars

\* C27: as long as no restore_backup attempt has succeeded, each having
\* failed or been cut short during the copy, every directory that was live
\* before the first attempt still exists complete, in place or as the
\* `.restore_backup` sibling, also while a retry sets the live directory
\* aside.
C27_OriginalSurvivesFailedAttempts ==
    (nrestores > 0 /\ ~rresult.success /\ rpc \in {"idle", "aside", "copy"})
        => \A ty \in DOMAIN orig :
               \/ DirOf(src, ty) = <<orig[ty]>>
               \/ DirOf(temp, ty) = <<orig[ty]>>

\* C28: when a completed append call inserted a record for a pair, the last
\* record it inserted for the pair is stored when the call returns and is
\* the first one list_entry_history_records returns for the pair, whatever
\* time the wall clock returned for the call.
C28_InsertedRecordIsListedFirst ==
    [][AppendStep =>
          \A doc \in Docs, uid \in UidInputs \ {""} :
              LET p == <<build_scope_key(doc), uid>>
                  last == insLog'[p][Len(insLog'[p])].id
                  items == ListEntryHistoryRecords(doc, uid, <<>>)'
              IN  (lastArgs'.doc = doc /\ Len(insLog'[p]) > Len(insLog[p]))
                      => /\ \E r \in store' : r.id = last
                         /\ items # <<>>
                         /\ items[1].id = last]_vars

\* the same, for calls at which the clock is not behind any stored row
C28_ListedFirstWithMonotoneClock ==
    [][(AppendStep /\ \A r \in store : \E q \in store' \ store : r.ts <= q.ts) =>
          \A doc \in Docs, uid \in UidInputs \ {""} :
              LET p == <<build_scope_key(doc), uid>>
                  last == insLog'[p][Len(insLog'[p])].id
                  items == ListEntryHistoryRecords(doc, uid, <<>>)'
              IN  (lastArgs'.doc = doc /\ Len(insLog'[p]) > Len(insLog[p]))
                      => /\ \E r \in store' : r.id = last
                         /\ items # <<>>
                         /\ items[1].id = last]_vars

(***************************************************************************)
(*                          delete_backup                                  *)
(***************************************************************************)
MaxDeletes == 2

\* backup_id arguments: `dots` is '', '.' or '..' when the id is one of
\* these, `name` a directory name (a second, as trigger_backup names them;
\* NoName without one), `sub` what follows a path separator ("" if nothing)
NoName == 0 - 1
PlainId(n) == [dots |-> "", name |-> n, sub |-> ""]
DeleteIds ==
    {[dots |-> d, name |-> NoName, sub |-> ""] : d \in {"", ".", ".."}}
    \cup {PlainId(n) : n \in {0, 1, 7}}
    \cup {[dots |-> "", name |-> 0, sub |-> s] :
                s \in {"characters", "metadata.json"}}

\* what os.path.join(backup_root, backup_id) names: the root, its parent, a
\* backup directory, a directory or a file inside one, or nothing
DeleteTarget(dirs, backup_id) ==
    IF backup_id.name = NoName
    THEN (IF backup_id.dots = ".." THEN "parent" ELSE "root")
    ELSE IF backup_id.name \notin DOMAIN dirs THEN "missing"
    ELSE IF backup_id.sub = "" THEN "backup"
    ELSE IF backup_id.sub \in DOMAIN dirs[backup_id.name].trees THEN "subtree"
    ELSE IF /\ backup_id.sub = "metadata.json"
            /\ dirs[backup_id.name].meta # NoMeta
         THEN "file"
    ELSE "missing"

\* delete_backup(backup_id), called while no trigger_backup is running and
\* the backup root exists: shutil.rmtree of the joined path.  rmtree of
\* 'root/.' and of 'root/..' empties the directory and then raises at the
\* final rmdir; rmtree of a file raises at once.
DeleteBackup(backup_id) ==
    LET dirs == roots[DefaultRoot]
        target == DeleteTarget(dirs, backup_id)
    IN  /\ ndeletes < MaxDeletes
        /\ lock = NoThread
        /\ DOMAIN dirs # {}
        /\ ndeletes' = ndeletes + 1
        /\ dargs' = backup_id
        /\ dret' = IF \/ target \in {"backup", "subtree"}
                      \/ (target = "root" /\ backup_id.dots = "")
                   THEN "ok" ELSE "fail"
        /\ roots' =
             [roots EXCEPT ![DefaultRoot] =
                CASE target \in {"root", "parent"} -> [n \in {} |-> 0]
                  [] target = "backup" ->
                        [n \in (DOMAIN dirs) \ {backup_id.name} |-> dirs[n]]
                  [] target = "subtree" ->
                        [dirs EXCEPT ![backup_id.name].trees =
                            WithoutDir(@, backup_id.sub)]
                  [] OTHER -> dirs]
        /\ siblings' = (siblings /\ target # "parent")
        /\ UNCHANGED <<docVars, histVars, restoreVars, clock, isoBasic,
                       retentionDays, src, tracker, lock, pc, loc, result,
                       nbackups, quiet>>

DeleteNext ==
    \/ Call("t1")
    \/ \E resources \in ArchiveArgs :
          AcquireAndStart("t1", resources, DefaultRoot, FALSE)
    \/ CopyResources("t1")
    \/ FinishBackup("t1")
    \/ Tick
    \/ \E backup_id \in DeleteIds : DeleteBackup(backup_id)

DeleteSpec == ArchiveInit /\ [][DeleteNext]_vars

\* C29: for every backup_id, the empty one, '.', '..' and ids with a path
\* separator included, delete_backup removes at most the backup directory
\* that is the direct child of the root named backup_id, and leaves every
\* other backup directory, the root's surroundings and the live data as
\* they are; a backup_id that names no backup returns failure and nothing
\* is removed.
C29_DeletesOnlyTheNamedBackup ==
    [][(ndeletes' = ndeletes + 1) =>
          LET dirs == roots[DefaultRoot]
              after == roots'[DefaultRoot]
          IN  /\ \A n \in DOMAIN dirs :
                     dargs' # PlainId(n) => (n \in DOMAIN after /\ after[n] = dirs[n])
              /\ siblings' = siblings
              /\ src' = src
              /\ (\A n \in DOMAIN dirs : dargs' # PlainId(n))
                     => (dret' = "fail" /\ roots' = roots)]_vars

\* the same for backup ids that are a plain directory name
C29_PlainNameDeletesOnlyTheNamedBackup ==
    [][(ndeletes' = ndeletes + 1 /\ dargs' \in {PlainId(n) : n \in {0, 1, 7}}) =>
          LET dirs == roots[DefaultRoot]
              after == roots'[DefaultRoot]
          IN  /\ \A n \in DOMAIN dirs :
                     dargs' # PlainId(n) => (n \in DOMAIN after /\ after[n] = dirs[n])
              /\ siblings' = siblings
              /\ src' = src
              /\ (\A n \in DOMAIN dirs : dargs' # PlainId(n))
                     => (dret' = "fail" /\ roots' = roots)
              /\ (\E n \in DOMAIN dirs : dargs' = PlainId(n))
                     => (dret' = "ok" /\ dargs'.name \notin DOMAIN after)]_vars

\* the versions (modification times) of file f of type ty held by the
\* backup directories of a root: all of them, and those of finished backups
ArchivedVersions(root, ty, f) ==
    {roots[root][n].trees[ty][f] :
        n \in {m \in DOMAIN roots[root] :
                  /\ ty \in DOMAIN roots[root][m].trees
                  /\ f \in DOMAIN roots[root][m].trees[ty]}}

FinishedVersions(root, ty, f) ==
    {roots[root][n].trees[ty][f] :
        n \in {m \in DOMAIN roots[root] :
                  /\ roots[root][m].meta # NoMeta
                  /\ ty \in DOMAIN roots[root][m].trees
                  /\ f \in DOMAIN roots[root][m].trees[ty]}}

\* C30: no modification is lost between consecutive backups: a covered file
\* that a finished backup of the destination root read and that was modified
\* afterwards (no backup directory holds its current version), also while
\* that backup was still running, is copied by the next incremental backup.
C30_NoModificationLost ==
    [][\A t \in Threads :
          IncrementalCopyStep(t)
              => \A ty \in Covered(t) : \A f \in DOMAIN src[ty] :
                    (/\ \E v \in FinishedVersions(loc[t].root, ty, f) :
                            v < src[ty][f]
                     /\ src[ty][f] \notin ArchivedVersions(loc[t].root, ty, f))
                        => <<ty, f>> \in loc'[t].copied]_vars

====
